---- MODULE Spec2Model ----
(***************************************************************************)
(* The README webhook of 0xjesus/agent-challenge: a Mastra server          *)
(* middleware that, on a GitHub push to the default branch, reads files    *)
(* through Octokit, asks readmeAgent for a README and commits it.          *)
(*                                                                         *)
(* The repository holds three builds of the middleware:                    *)
(*   "index"    src/src/mastra/index.ts                                    *)
(*   "part_002" src/unnamed/part_002                                       *)
(*   "part_003" src/unnamed/part_003                                       *)
(* The variable `variant` says which one is deployed.                      *)
(*                                                                         *)
(* JavaScript strings that the code inspects (paths, refs, commit          *)
(* messages) are sequences of one-character strings, so that endsWith,     *)
(* includes, startsWith and concatenation are computed, not assumed.       *)
(* A file's text is represented by its length in characters.               *)
(***************************************************************************)
EXTENDS Integers, Sequences, FiniteSets, TLC

VARIABLES
    variant,          \* which build of the middleware is deployed
    tokenSet,         \* process.env.GITHUB_TOKEN is set
    world,            \* the repository on GitHub: tree, file lengths, broken paths
    readme,           \* README.md on the default branch: <<>> or <<[sha, len]>>
    queue,            \* push events GitHub has still to deliver to the webhook
    commits,          \* README commits written so far
    req,              \* the request being handled: <<>> or <<request>>
    pc,               \* the await the handler is suspended at
    pushData,         \* the parsed payload: <<>> or <<payload>>
    calls,            \* the outbound calls of this request, in issue order
    prompt,           \* file portions collected for the prompt, in order
    todo,             \* files the current collection loop has still to read
    text,             \* response.text of the model: <<>> (undefined) or <<length>>
    existingFileSha,  \* <<>> (undefined) or <<sha>>
    response,         \* what the middleware answered: <<>> or <<response>>
    nextCalls,        \* times next() was called for this request
    escaped,          \* an exception left the middleware
    parked            \* another request of the process, suspended: <<>> or <<frame>>

vars == <<variant, tokenSet, world, readme, queue, commits, req, pc, pushData,
          calls, prompt, todo, text, existingFileSha, response, nextCalls, escaped,
          parked>>

deployVars == <<variant, tokenSet, world>>
repoVars == <<readme, queue, commits>>
localVars == <<pushData, prompt, todo, text, existingFileSha>>

----------------------------------------------------------------------------
(* Bounds of the model *)

\* Requests are admitted while fewer than MaxCommits README commits exist.
MaxCommits == 2

\* Webhook deliveries of the loop specification are made while fewer than
\* MaxLoopCommits README commits exist.
MaxLoopCommits == 3

\* Requests of the liveness specification are admitted while fewer than
\* MaxLiveCommits README commits exist.
MaxLiveCommits == 1

----------------------------------------------------------------------------
(* JavaScript string and array operations *)

Min(a, b) == IF a < b THEN a ELSE b

\* s.endsWith(suf)
EndsWith(s, suf) ==
    /\ Len(s) >= Len(suf)
    /\ SubSeq(s, Len(s) - Len(suf) + 1, Len(s)) = suf

\* s.startsWith(pre)
StartsWith(s, pre) ==
    /\ Len(s) >= Len(pre)
    /\ SubSeq(s, 1, Len(pre)) = pre

\* s.includes(pat)
Includes(s, pat) ==
    \E i \in 1..(Len(s) - Len(pat) + 1) : SubSeq(s, i, i + Len(pat) - 1) = pat

\* exts.some(ext => s.endsWith(ext))
SomeEndsWith(s, exts) == \E i \in 1..Len(exts) : EndsWith(s, exts[i])

\* patterns.some(pattern => s.includes(pattern))
SomeIncluded(s, patterns) == \E i \in 1..Len(patterns) : Includes(s, patterns[i])

\* list.slice(0, n)
Slice(list, n) == SubSeq(list, 1, Min(n, Len(list)))

\* The set of elements of a list
Range(list) == {list[i] : i \in 1..Len(list)}

----------------------------------------------------------------------------
(* Program constants *)

WebhookPath == "/api/github-webhook"

relevantExtensions ==
    << <<".","t","s">>, <<".","j","s">>, <<".","t","s","x">>, <<".","j","s","x">>, <<".","p","y">>, <<".","j","a","v","a">>, <<".","g","o">>, <<".","r","s">>,
       <<".","c","p","p">>, <<".","c">>, <<".","p","h","p">>, <<".","r","b">>, <<".","s","w","i","f","t">>, <<".","k","t">>, <<".","c","s">>, <<".","v","u","e">>,
       <<".","s","v","e","l","t","e">>, <<".","m","d">>, <<".","j","s","o","n">>, <<".","y","a","m","l">>, <<".","y","m","l">>, <<".","t","o","m","l">>, <<".","s","q","l">> >>

excludePatterns ==
    << <<"/","n","o","d","e","_","m","o","d","u","l","e","s","/">>, <<"/","d","i","s","t","/">>, <<"/","b","u","i","l","d","/">>, <<"/",".","g","i","t","/">>, <<"/","c","o","v","e","r","a","g","e","/">>,
       <<"/","t","e","m","p","/">>, <<"/","t","m","p","/">> >>

keyFilePatterns ==
    << <<"p","a","c","k","a","g","e",".","j","s","o","n">>, <<"R","E","A","D","M","E",".","m","d">>, <<"D","o","c","k","e","r","f","i","l","e">>, <<"d","o","c","k","e","r","-","c","o","m","p","o","s","e",".","y","m","l">>,
       <<"d","o","c","k","e","r","-","c","o","m","p","o","s","e",".","y","a","m","l">>, <<".","e","n","v",".","e","x","a","m","p","l","e">>, <<"r","e","q","u","i","r","e","m","e","n","t","s",".","t","x","t">>,
       <<"C","a","r","g","o",".","t","o","m","l">>, <<"g","o",".","m","o","d">>, <<"p","o","m",".","x","m","l">>, <<"b","u","i","l","d",".","g","r","a","d","l","e">>, <<"t","s","c","o","n","f","i","g",".","j","s","o","n">>,
       <<"n","e","x","t",".","c","o","n","f","i","g",".","j","s">>, <<"n","e","x","t",".","c","o","n","f","i","g",".","t","s">>, <<"v","i","t","e",".","c","o","n","f","i","g",".","j","s">>,
       <<"v","i","t","e",".","c","o","n","f","i","g",".","t","s">> >>

importantExtensions ==
    << <<".","t","s">>, <<".","j","s">>, <<".","t","s","x">>, <<".","j","s","x">>, <<".","p","y">>, <<".","g","o">>, <<".","r","s">>, <<".","j","a","v","a">>,
       <<".","c","p","p">>, <<".","c">> >>

excludePatterns3 ==
    << <<"n","o","d","e","_","m","o","d","u","l","e","s","/">>, <<"d","i","s","t","/">>, <<"b","u","i","l","d","/">>, <<".","g","i","t","/">>, <<"c","o","v","e","r","a","g","e","/">>,
       <<"_","_","p","y","c","a","c","h","e","_","_","/">>, <<"t","a","r","g","e","t","/">> >>

\* relevantFiles.slice(0, 10) of index.ts and part_002
MaxChangedFiles == 10

\* .slice(0, 8) of part_002's repository scan
MaxScannedFiles == 8

\* sourceFiles .slice(0, 10) of part_003
MaxSourceFiles == 10

\* content.length > 2000 of part_002
TruncateAt2 == 2000

\* content.length > 1500 of part_003
TruncateAt3 == 1500

\* newReadmeContent.length < 50 of part_002
MinReadme2 == 50

\* newReadmeContent.length < 100 of part_003
MinReadme3 == 100

PackageJson == <<"p","a","c","k","a","g","e",".","j","s","o","n">>
ReadmeMd == <<"R","E","A","D","M","E",".","m","d">>

\* 'docs: [AI] Update README.md based on recent changes'
CommitMessage12 == <<"d","o","c","s",":"," ","[","A","I","]"," ","U","p","d","a","t","e"," ","R","E","A","D","M","E",".","m","d"," ","b","a","s","e","d"," ","o","n"," ","r","e","c","e","n","t"," ","c","h","a","n","g","e","s">>

\* 'docs: [AI] Update README.md based on project analysis'
CommitMessage3 == <<"d","o","c","s",":"," ","[","A","I","]"," ","U","p","d","a","t","e"," ","R","E","A","D","M","E",".","m","d"," ","b","a","s","e","d"," ","o","n"," ","p","r","o","j","e","c","t"," ","a","n","a","l","y","s","i","s">>

AiTag == <<"[","A","I","]">>
BotName == <<"A","I"," ","R","E","A","D","M","E"," ","B","o","t">>

----------------------------------------------------------------------------
(* The environment: the repository on GitHub and the requests that arrive *)

Blob(p) == [path |-> p, type |-> "blob"]
Tree(p) == [path |-> p, type |-> "tree"]

SrcFiles ==
    << <<"s","r","c","/","a",".","t","s">>, <<"s","r","c","/","b",".","t","s">>, <<"s","r","c","/","c",".","t","s">>, <<"s","r","c","/","d",".","t","s">>, <<"s","r","c","/","e",".","t","s">>,
       <<"s","r","c","/","f",".","t","s">>, <<"s","r","c","/","g",".","t","s">>, <<"s","r","c","/","h",".","t","s">>, <<"s","r","c","/","i",".","t","s">>, <<"s","r","c","/","j",".","t","s">>,
       <<"s","r","c","/","k",".","t","s">>, <<"s","r","c","/","l",".","t","s">> >>

\* A project: more source files than any limit of the code, key files at the
\* root and below it, an empty file, a file longer than both truncation
\* limits, a path GitHub fails on, a directory named like a file, and
\* excluded directories.
ProjectWorld ==
    [ tree |->
        << Blob(<<".","e","n","v",".","e","x","a","m","p","l","e">>), Blob(<<"D","o","c","k","e","r","f","i","l","e">>), Tree(<<"d","o","c","s">>),
           Blob(<<"d","o","c","s","/","g","u","i","d","e",".","m","d">>), Tree(<<"l","i","b">>), Blob(<<"l","i","b","/","n",".","t","s">>),
           Tree(<<"n","o","d","e","_","m","o","d","u","l","e","s">>), Blob(<<"n","o","d","e","_","m","o","d","u","l","e","s","/","x",".","j","s">>),
           Blob(<<"p","a","c","k","a","g","e",".","j","s","o","n">>), Tree(<<"p","a","c","k","a","g","e","s">>),
           Blob(<<"p","a","c","k","a","g","e","s","/","w","e","b","/","p","a","c","k","a","g","e",".","j","s","o","n">>), Tree(<<"s","r","c">>) >>
        \o [i \in 1..Len(SrcFiles) |-> Blob(SrcFiles[i])]
        \o << Tree(<<"s","r","c","/","d","i","s","t">>), Blob(<<"s","r","c","/","d","i","s","t","/","m",".","j","s">>), Tree(<<"t","h","r","e","e",".","j","s">>),
              Blob(<<"t","s","c","o","n","f","i","g",".","j","s","o","n">>) >>,
      len |->
        (<<".","e","n","v",".","e","x","a","m","p","l","e">> :> 40) @@ (<<"D","o","c","k","e","r","f","i","l","e">> :> 0) @@
        (<<"d","o","c","s","/","g","u","i","d","e",".","m","d">> :> 2001) @@ (<<"l","i","b","/","n",".","t","s">> :> 300) @@
        (<<"n","o","d","e","_","m","o","d","u","l","e","s","/","x",".","j","s">> :> 100) @@ (<<"p","a","c","k","a","g","e",".","j","s","o","n">> :> 2600) @@
        (<<"p","a","c","k","a","g","e","s","/","w","e","b","/","p","a","c","k","a","g","e",".","j","s","o","n">> :> 200) @@ (<<"s","r","c","/","d","i","s","t","/","m",".","j","s">> :> 5000) @@
        (<<"t","s","c","o","n","f","i","g",".","j","s","o","n">> :> 120) @@
        (<<"s","r","c","/","a",".","t","s">> :> 1500) @@ (<<"s","r","c","/","b",".","t","s">> :> 1501) @@
        (<<"s","r","c","/","c",".","t","s">> :> 2000) @@ (<<"s","r","c","/","d",".","t","s">> :> 2001) @@
        [p \in {SrcFiles[i] : i \in 5..Len(SrcFiles)} |-> 100],
      broken |-> {<<"t","s","c","o","n","f","i","g",".","j","s","o","n">>} ]

\* A repository with nothing in it but, perhaps, a README.md
EmptyWorld == [tree |-> <<>>, len |-> <<>>, broken |-> {}]

Worlds == {ProjectWorld, EmptyWorld}

\* A small project: package.json and one source file, longer than part_003's
\* truncation limit
TinyWorld ==
    [ tree |-> << Blob(<<"p","a","c","k","a","g","e",".","j","s","o","n">>), Tree(<<"s","r","c">>), Blob(<<"s","r","c","/","a",".","t","s">>) >>,
      len |-> (<<"p","a","c","k","a","g","e",".","j","s","o","n">> :> 200) @@ (<<"s","r","c","/","a",".","t","s">> :> 1501),
      broken |-> {} ]

\* README.md as first found on the default branch
Readmes == { <<>>, <<[sha |-> 1, len |-> 1700]>> }

\* The tree GitHub lists: the world's, and README.md when it exists
RepoTree == world.tree \o (IF readme = <<>> THEN <<>> ELSE <<Blob(ReadmeMd)>>)

Repo(branch) == [name |-> "agent-challenge", owner |-> [login |-> "0xjesus"],
                 default_branch |-> branch]

Commit(msg, added, modified, removed) ==
    <<[message |-> msg, added |-> added, modified |-> modified, removed |-> removed]>>

Push(ref, head, branch) ==
    [kind |-> "push", ref |-> ref, head_commit |-> head, repository |-> Repo(branch)]

\* A push to another repository, whose default branch is dev
ForkPush ==
    [kind |-> "push", ref |-> <<"r","e","f","s","/","h","e","a","d","s","/","d","e","v">>,
     head_commit |-> Commit(<<"d","o","c","s",":"," ","t","y","p","o">>, <<>>, <<<<"d","o","c","s","/","g","u","i","d","e",".","m","d">>>>, <<>>),
     repository |-> [name |-> "fork", owner |-> [login |-> "someone"],
                     default_branch |-> <<"d","e","v">>]]

RefMain == <<"r","e","f","s","/","h","e","a","d","s","/","m","a","i","n">>
RefDev == <<"r","e","f","s","/","h","e","a","d","s","/","d","e","v">>

\* Bodies that are no push payload: text that is not JSON, and JSON that
\* pushPayloadSchema rejects (ref is missing).
NotJson == [kind |-> "notjson"]
BadSchema == [kind |-> "badschema"]

HumanCommit ==
    Commit(<<"f","i","x",":"," ","p","a","r","s","e","r">>, <<<<"s","r","c","/","a",".","t","s">>, <<"d","o","c","s","/","g","u","i","d","e",".","m","d">>>>,
           <<<<"p","a","c","k","a","g","e",".","j","s","o","n">>, <<"s","r","c","/","d","i","s","t","/","m",".","j","s">>, <<"D","o","c","k","e","r","f","i","l","e">>, <<"t","s","c","o","n","f","i","g",".","j","s","o","n">>,
             <<"t","h","r","e","e",".","j","s">>>>,
           <<<<"s","r","c","/","o","l","d",".","t","s">>>>)

ManyCommit ==
    Commit(<<"f","e","a","t",":"," ","e","v","e","r","y","t","h","i","n","g">>, SubSeq(SrcFiles, 1, 6), SubSeq(SrcFiles, 7, 12),
           <<<<"s","r","c","/","o","l","d",".","t","s">>>>)

SmallCommit == Commit(<<"f","i","x",":"," ","a">>, <<>>, <<<<"s","r","c","/","a",".","t","s">>>>, <<>>)

NoRelevantCommit == Commit(<<"c","h","o","r","e",":"," ","d","o","c","k","e","r">>, <<<<"D","o","c","k","e","r","f","i","l","e">>>>, <<>>, <<>>)

Payloads ==
    { Push(RefMain, <<>>, <<"m","a","i","n">>),
      Push(RefDev, <<>>, <<"m","a","i","n">>),
      Push(RefMain, HumanCommit, <<"m","a","i","n">>),
      Push(RefMain, ManyCommit, <<"m","a","i","n">>),
      Push(RefMain, NoRelevantCommit, <<"m","a","i","n">>),
      Push(RefDev, HumanCommit, <<"m","a","i","n">>),
      Push(RefDev, NoRelevantCommit, <<"d","e","v">>),
      Push(<<"r","e","f","s","/","t","a","g","s","/","m","a","i","n">>, NoRelevantCommit, <<"m","a","i","n">>),
      Push(RefDev, Commit(CommitMessage12, <<>>, <<ReadmeMd>>, <<>>), <<"m","a","i","n">>),
      Push(RefMain, Commit(CommitMessage12, <<>>, <<ReadmeMd>>, <<>>), <<"m","a","i","n">>),
      Push(RefMain, Commit(CommitMessage3, <<ReadmeMd>>, <<>>, <<>>), <<"m","a","i","n">>),
      Push(RefMain, Commit(<<"c","h","o","r","e",":"," ","t","h","a","n","k"," ","A","I"," ","R","E","A","D","M","E"," ","B","o","t">>, <<>>, <<<<"s","r","c","/","a",".","t","s">>>>, <<>>), <<"m","a","i","n">>),
      ForkPush }

Request(method, path, body) == [method |-> method, path |-> path, body |-> body]

Requests ==
    { Request("POST", WebhookPath, b) : b \in {NotJson, BadSchema} \cup Payloads }
    \cup { Request("GET", WebhookPath, NotJson),
           Request("POST", "/api/agents", Push(RefMain, HumanCommit, <<"m","a","i","n">>)) }

\* The push event GitHub sends for a README commit made through its API
BotPush(c) ==
    Request("POST", WebhookPath,
            [kind |-> "push", ref |-> <<"r","e","f","s","/","h","e","a","d","s","/">> \o c.branch,
             head_commit |-> Commit(c.message,
                                    IF c.sha = <<>> THEN <<ReadmeMd>> ELSE <<>>,
                                    IF c.sha = <<>> THEN <<>> ELSE <<ReadmeMd>>,
                                    <<>>),
             repository |-> [name |-> c.repo, owner |-> [login |-> c.owner],
                             default_branch |-> c.branch]])

----------------------------------------------------------------------------
(* Outbound calls and their results *)

Pending == [st |-> "pending"]

\* octokit.repos.getContent({ owner, repo, path }); `use` is the place of the
\* code that reads: "packageJson", "readme", "files", "keyFiles" and
\* "sourceFiles" for the prompt, "sha" for the lookup before the commit
GetContent(p, path, use) ==
    [kind |-> "getContent", use |-> use, owner |-> p.repository.owner.login,
     repo |-> p.repository.name, path |-> path, res |-> Pending]

\* octokit.git.getTree({ owner, repo, tree_sha: 'HEAD', recursive: 'true' })
GetTree(p) ==
    [kind |-> "getTree", use |-> "tree", owner |-> p.repository.owner.login,
     repo |-> p.repository.name, path |-> <<>>, res |-> Pending]

\* agent.generate([{ role: 'user', content: <the prompt> }])
Generate(portions) ==
    [kind |-> "generate", use |-> "model", portions |-> portions, res |-> Pending]

\* Buffer.from(text).toString('base64'), and what GitHub stores of it
Base64(n) == [base64 |-> n]
Decoded(content) == content.base64

Awaiting == calls # <<>> /\ calls[Len(calls)].res.st = "pending"
LastCall == calls[Len(calls)]
Result == LastCall.res

\* What GitHub answers to getContent for a path
ContentOf(path) ==
    IF path = ReadmeMd
    THEN IF readme = <<>> THEN [st |-> "404"]
         ELSE [st |-> "file", len |-> readme[1].len, sha |-> readme[1].sha]
    ELSE IF path \in world.broken THEN [st |-> "500"]
    ELSE IF Tree(path) \in Range(world.tree) THEN [st |-> "dir"]
    ELSE IF path \in DOMAIN world.len
         THEN [st |-> "file", len |-> world.len[path], sha |-> 0]
    ELSE [st |-> "404"]

\* Lengths of the text the model may answer with
TextLengths == {0, 49, 50, 99, 100}

\* The results a pending call may get
Outcomes(call) ==
    CASE call.kind = "getContent" ->
            {ContentOf(call.path)}
            \cup (IF call.use = "sha" THEN {[st |-> "500"]} ELSE {})
      [] call.kind = "getTree" ->
            {[st |-> "ok", tree |-> RepoTree], [st |-> "500"]}
      [] call.kind = "generate" ->
            {[st |-> "threw"], [st |-> "ok", text |-> <<>>]}
            \cup {[st |-> "ok", text |-> <<n>>] : n \in TextLengths}
      [] call.kind = "createOrUpdateFileContents" ->
            IF call.sha = (IF readme = <<>> THEN <<>> ELSE <<readme[1].sha>>)
            THEN {[st |-> "ok"], [st |-> "500"]}
            ELSE {[st |-> "409"]}

\* GitHub or the model answers the pending call.  A commit that GitHub accepts
\* replaces README.md and is announced to the webhook as a push event.
Respond ==
    /\ Awaiting
    /\ \E r \in Outcomes(LastCall) :
        /\ calls' = [calls EXCEPT ![Len(calls)].res = r]
        /\ IF LastCall.kind = "createOrUpdateFileContents" /\ r.st = "ok"
           THEN /\ readme' = <<[sha |-> (IF readme = <<>> THEN 0 ELSE readme[1].sha) + 1,
                                len |-> Decoded(LastCall.content)]>>
                /\ commits' = commits + 1
                /\ queue' = Append(queue, BotPush(LastCall))
           ELSE UNCHANGED repoVars
    /\ UNCHANGED <<deployVars, parked, req, pc, localVars, response, nextCalls, escaped>>

----------------------------------------------------------------------------
(* The middleware: what is common to the three builds *)

\* return c.json({ status: 'skipped', reason })
Skipped(reason) ==
    [code |-> 200, status |-> "skipped", success |-> "none", msg |-> reason]

\* return c.json({ success: true, message, ... })
Success(message) ==
    [code |-> 200, status |-> "none", success |-> "true", msg |-> message]

\* return c.json({ success: false, error }, 500)
Failure(error) ==
    [code |-> 500, status |-> "none", success |-> "false", msg |-> error]

\* A faulty variant: the method is not looked at
IsWebhook_PathOnly(r) == r.path = WebhookPath

\* c.req.method === 'POST' && c.req.path === '/api/github-webhook'
IsWebhook(r) == r.method = "POST" /\ r.path = WebhookPath

\* A faulty variant: the try block opens after the body is parsed
TryCovers_AfterJson(site) ==
    site \in {"parse", "generate", "sha", "buffer", "commit"}

\* The sites of the handler that can throw, all of them inside its try block
TryCovers(site) ==
    site \in {"json", "parse", "generate", "sha", "buffer", "commit"}

\* pushPayloadSchema.parse(payload) accepts the body
pushPayloadSchema(body) == body.kind = "push"

\* A faulty variant: only the branch name at the end of the ref is compared
NotDefaultBranch_Suffix(p) == ~EndsWith(p.ref, p.repository.default_branch)

\* pushData.ref !== `refs/${defaultBranchRef}`
NotDefaultBranch(p) ==
    LET defaultBranchRef == <<"h","e","a","d","s","/">> \o p.repository.default_branch
    IN  p.ref # <<"r","e","f","s","/">> \o defaultBranchRef

\* The bot-commit check of each build; part_002 has none
IsAiCommit(p) ==
    LET commitMessage == p.head_commit[1].message
    IN  CASE variant = "index" -> Includes(commitMessage, AiTag)
          [] variant = "part_002" -> FALSE
          [] variant = "part_003" ->
                Includes(commitMessage, AiTag) \/ Includes(commitMessage, BotName)

AiCommitReason == IF variant = "part_003" THEN "AI bot commit detected" ELSE "AI commit"

\* A faulty variant: the branch is checked before head_commit
EarlyReturn_BranchFirst(p) ==
    IF NotDefaultBranch(p) THEN <<Skipped("Not default branch")>>
    ELSE IF p.head_commit = <<>> THEN <<Skipped("No head_commit found")>>
    ELSE IF IsAiCommit(p) THEN <<Skipped(AiCommitReason)>>
    ELSE IF variant = "part_003" /\ ~tokenSet
         THEN <<Failure("GitHub token not configured")>>
    ELSE <<>>

\* A faulty variant: part_003 looks for the token before the skip checks
EarlyReturn_TokenFirst(p) ==
    IF variant = "part_003" /\ ~tokenSet
    THEN <<Failure("GitHub token not configured")>>
    ELSE IF p.head_commit = <<>> THEN <<Skipped("No head_commit found")>>
    ELSE IF IsAiCommit(p) THEN <<Skipped(AiCommitReason)>>
    ELSE IF NotDefaultBranch(p) THEN <<Skipped("Not default branch")>>
    ELSE <<>>

\* A faulty variant: part_003 does not look for the token
EarlyReturn_NoTokenCheck(p) ==
    IF p.head_commit = <<>> THEN <<Skipped("No head_commit found")>>
    ELSE IF IsAiCommit(p) THEN <<Skipped(AiCommitReason)>>
    ELSE IF NotDefaultBranch(p) THEN <<Skipped("Not default branch")>>
    ELSE <<>>

\* The early returns before any outbound call: <<>> or <<the response>>
EarlyReturn(p) ==
    IF p.head_commit = <<>> THEN <<Skipped("No head_commit found")>>
    ELSE IF IsAiCommit(p) THEN <<Skipped(AiCommitReason)>>
    ELSE IF NotDefaultBranch(p) THEN <<Skipped("Not default branch")>>
    ELSE IF variant = "part_003" /\ ~tokenSet
         THEN <<Failure("GitHub token not configured")>>
    ELSE <<>>

\* [...added, ...modified, ...removed]
allChangedFiles(p) ==
    p.head_commit[1].added \o p.head_commit[1].modified \o p.head_commit[1].removed

\* The error text of the catch block
CatchError ==
    CASE variant = "index" -> "Failed to process push"
      [] variant = "part_002" -> "Failed to process webhook"
      [] variant = "part_003" -> "Webhook processing failed"

\* getFileContent: the decoded text, as <<length>>, or <<>> for null
getFileContent(r) == IF r.st = "file" THEN <<r.len>> ELSE <<>>

\* A file's text as it enters the prompt, read at `from`: whole, or cut at
\* `limit` characters and followed by the truncation marker
Whole(from, path, n) ==
    [from |-> from, path |-> path, len |-> n, taken |-> n, marker |-> FALSE]
\* A faulty variant: nothing is cut
Truncated_Never(from, path, n, limit) == Whole(from, path, n)

Truncated(from, path, n, limit) ==
    IF n > limit
    THEN [from |-> from, path |-> path, len |-> n, taken |-> limit, marker |-> TRUE]
    ELSE Whole(from, path, n)

\* A faulty variant: the commit goes to 'main', whatever the default branch is
CreateOrUpdateFileContents_Main(p, n, sha) ==
    [kind |-> "createOrUpdateFileContents", use |-> "write",
     owner |-> p.repository.owner.login, repo |-> p.repository.name,
     path |-> ReadmeMd,
     message |-> IF variant = "part_003" THEN CommitMessage3 ELSE CommitMessage12,
     content |-> Base64(n), sha |-> sha,
     committer |-> [name |-> "AI README Bot", email |-> "bot@nosana.io"],
     branch |-> <<"m","a","i","n">>, res |-> Pending]

\* octokit.repos.createOrUpdateFileContents({ ... })
CreateOrUpdateFileContents(p, n, sha) ==
    [kind |-> "createOrUpdateFileContents", use |-> "write",
     owner |-> p.repository.owner.login, repo |-> p.repository.name,
     path |-> ReadmeMd,
     message |-> IF variant = "part_003" THEN CommitMessage3 ELSE CommitMessage12,
     content |-> Base64(n), sha |-> sha,
     committer |-> [name |-> "AI README Bot", email |-> "bot@nosana.io"],
     branch |-> p.repository.default_branch, res |-> Pending]

(* How a step of the handler ends *)

\* return c.json(r)
Reply(r) ==
    /\ pc' = "done"
    /\ response' = <<r>>
    /\ UNCHANGED <<calls, escaped>>

\* an exception is thrown at `site`: the catch block answers 500
Throw(site) ==
    /\ pc' = "done"
    /\ UNCHANGED calls
    /\ IF TryCovers(site)
       THEN response' = <<Failure(CatchError)>> /\ UNCHANGED escaped
       ELSE escaped' = TRUE /\ UNCHANGED response

\* await <call>
Await(at, call) ==
    /\ pc' = at
    /\ calls' = Append(calls, call)
    /\ UNCHANGED <<response, escaped>>

\* await agent.generate(...) with the portions collected
AwaitGenerate(portions) == Await("generate", Generate(portions))

\* A faulty variant: the portions collected for the prompt are kept in the
\* module, from one request to the next
Middleware_KeepsPrompt(r) ==
    /\ req' = <<r>>
    /\ pushData' = <<>>
    /\ calls' = <<>>
    /\ prompt' = prompt
    /\ todo' = <<>>
    /\ text' = <<>>
    /\ existingFileSha' = <<>>
    /\ response' = <<>>
    /\ escaped' = FALSE
    /\ IF IsWebhook(r)
       THEN pc' = "json" /\ nextCalls' = 0
       ELSE pc' = "next" /\ nextCalls' = 1
    /\ UNCHANGED deployVars

\* The middleware is entered with request r
Middleware(r) ==
    /\ req' = <<r>>
    /\ pushData' = <<>>
    /\ calls' = <<>>
    /\ prompt' = <<>>
    /\ todo' = <<>>
    /\ text' = <<>>
    /\ existingFileSha' = <<>>
    /\ response' = <<>>
    /\ escaped' = FALSE
    /\ IF IsWebhook(r)
       THEN pc' = "json" /\ nextCalls' = 0
       ELSE pc' = "next" /\ nextCalls' = 1
    /\ UNCHANGED deployVars

\* A request arrives from anywhere
Receive ==
    /\ pc \in {"idle", "done"}
    /\ commits < MaxCommits
    /\ \E r \in Requests : Middleware(r)
    /\ UNCHANGED <<repoVars, parked>>

\* A request arrives from anywhere, in the liveness specification
Accept ==
    /\ pc \in {"idle", "done"}
    /\ commits < MaxLiveCommits
    /\ \E r \in Requests : Middleware(r)
    /\ UNCHANGED <<repoVars, parked>>

\* GitHub delivers the next push event to the webhook
Deliver ==
    /\ pc \in {"idle", "done"}
    /\ commits < MaxLoopCommits
    /\ queue # <<>>
    /\ Middleware(Head(queue))
    /\ queue' = Tail(queue)
    /\ UNCHANGED <<readme, commits, parked>>

\* await next() returns
NextReturns ==
    /\ pc = "next"
    /\ pc' = "done"
    /\ UNCHANGED <<deployVars, parked, repoVars, req, localVars, calls, response,
                   nextCalls, escaped>>

----------------------------------------------------------------------------
(* File selection *)

\* hasRelevantExtension && isNotExcluded, of index.ts and part_002
isRelevant(file) ==
    /\ SomeEndsWith(file, relevantExtensions)
    /\ ~SomeIncluded(file, excludePatterns)

\* A faulty variant: the slice is missing
priorityFiles_NoSlice(changedFiles) == SelectSeq(changedFiles, isRelevant)

\* index.ts: relevantFiles.slice(0, 10)
priorityFiles(changedFiles) ==
    Slice(SelectSeq(changedFiles, isRelevant), MaxChangedFiles)

\* part_002: the changed files that are relevant
relevantFiles(changedFiles) == SelectSeq(changedFiles, isRelevant)

\* part_002: the files read of the repository scan, as paths
keyFiles(tree) ==
    LET kept == SelectSeq(tree, LAMBDA item :
                    /\ item.type = "blob"
                    /\ item.path # <<>>
                    /\ isRelevant(item.path))
        first == Slice(kept, MaxScannedFiles)
    IN  [i \in 1..Len(first) |-> first[i].path]

\* part_003: structure.files, the paths of the blobs of the tree
structureFiles(tree) ==
    LET blobs == SelectSeq(tree, LAMBDA item : item.path # <<>> /\ item.type = "blob")
    IN  [i \in 1..Len(blobs) |-> blobs[i].path]

\* part_003: for each key-file pattern in order, the first file matching it
keyFilesFound(files) ==
    LET matching(pattern) ==
            SelectSeq(files, LAMBDA f : f = pattern \/ EndsWith(f, <<"/">> \o pattern))
        hit == SelectSeq(keyFilePatterns, LAMBDA pattern : matching(pattern) # <<>>)
    IN  [i \in 1..Len(hit) |-> Head(matching(hit[i]))]

\* part_003: the source files read
sourceFiles(files) ==
    Slice(SelectSeq(files, LAMBDA f :
              /\ SomeEndsWith(f, importantExtensions)
              /\ ~SomeIncluded(f, excludePatterns3)
              /\ (StartsWith(f, <<"s","r","c","/">>) \/ ~Includes(f, <<"/">>))),
          MaxSourceFiles)

----------------------------------------------------------------------------
(* The handler, one action for the code between two awaits *)

Returned(at) == pc = at /\ ~Awaiting

\* A file's text joins the prompt when it is not null and not empty
Add(portions, content, portion) ==
    IF content # <<>> /\ content[1] > 0 THEN Append(portions, portion) ELSE portions

\* A faulty variant: the reads of a loop are issued together (Promise.all)
ReadAll_AllAtOnce(p, portions, files, at) ==
    /\ prompt' = portions
    /\ todo' = files
    /\ IF files = <<>>
       THEN AwaitGenerate(portions)
       ELSE /\ pc' = at
            /\ calls' = calls \o [i \in 1..Len(files) |-> GetContent(p, files[i], at)]
            /\ UNCHANGED <<response, escaped>>

\* Read the files of `files` one after the other, then call the model
ReadAll(p, portions, files, at) ==
    /\ prompt' = portions
    /\ todo' = files
    /\ IF files = <<>>
       THEN AwaitGenerate(portions)
       ELSE Await(at, GetContent(p, files[1], at))

\* The first outbound call of a push that is not skipped
FirstCall(p) ==
    IF variant = "part_003"
    THEN Await("tree", GetTree(p))
    ELSE Await("packageJson", GetContent(p, PackageJson, "packageJson"))

\* await c.req.json() returned or threw; validation and the skip checks
ParsePayload ==
    /\ pc = "json"
    /\ LET body == req[1].body
       IN  IF body.kind = "notjson"
           THEN Throw("json") /\ UNCHANGED localVars
           ELSE IF ~pushPayloadSchema(body)
           THEN Throw("parse") /\ UNCHANGED localVars
           ELSE /\ pushData' = <<body>>
                /\ UNCHANGED <<prompt, todo, text, existingFileSha>>
                /\ IF EarlyReturn(body) # <<>>
                   THEN Reply(EarlyReturn(body)[1])
                   ELSE FirstCall(body)
    /\ UNCHANGED <<deployVars, parked, repoVars, req, nextCalls>>

\* index.ts, part_002: package.json was read; README.md is read next
AfterPackageJson ==
    /\ Returned("packageJson")
    /\ LET content == getFileContent(Result)
       IN  prompt' = Add(prompt, content, Whole("packageJson", PackageJson, content[1]))
    /\ Await("readme", GetContent(pushData[1], ReadmeMd, "readme"))
    /\ UNCHANGED <<deployVars, parked, repoVars, req, nextCalls, pushData, todo, text,
                   existingFileSha>>

\* index.ts, part_002: README.md was read; the changed files are selected
AfterReadme ==
    /\ Returned("readme")
    /\ LET p == pushData[1]
           content == getFileContent(Result)
           portions == Add(prompt, content, Whole("readme", ReadmeMd, content[1]))
       IN  IF variant = "index"
           THEN ReadAll(p, portions, priorityFiles(allChangedFiles(p)), "files")
           ELSE IF relevantFiles(allChangedFiles(p)) = <<>>
           THEN /\ prompt' = portions
                /\ todo' = <<>>
                /\ Await("tree", GetTree(p))
           ELSE ReadAll(p, portions,
                        Slice(relevantFiles(allChangedFiles(p)), MaxChangedFiles),
                        "files")
    /\ UNCHANGED <<deployVars, parked, repoVars, req, nextCalls, pushData, text,
                   existingFileSha>>

\* part_002, part_003: the tree was listed, or the listing failed
AfterTree ==
    /\ Returned("tree")
    /\ LET p == pushData[1]
       IN  IF Result.st # "ok"
           THEN /\ UNCHANGED <<prompt, todo>>
                /\ AwaitGenerate(prompt)
           ELSE IF variant = "part_002"
           THEN ReadAll(p, prompt, keyFiles(Result.tree), "files")
           ELSE LET files == structureFiles(Result.tree)
                IN  IF keyFilesFound(files) # <<>>
                    THEN ReadAll(p, prompt, keyFilesFound(files), "keyFiles")
                    ELSE ReadAll(p, prompt, sourceFiles(files), "sourceFiles")
    /\ UNCHANGED <<deployVars, parked, repoVars, req, nextCalls, pushData, text,
                   existingFileSha>>

\* A faulty variant: the loop does not move on to the next file
AfterFile_SameFile ==
    /\ Returned("files")
    /\ LET path == Head(todo)
           content == getFileContent(Result)
           portion == IF variant = "index"
                      THEN Whole("files", path, content[1])
                      ELSE Truncated("files", path, content[1], TruncateAt2)
       IN  ReadAll(pushData[1], Add(prompt, content, portion), todo, "files")
    /\ UNCHANGED <<deployVars, parked, repoVars, req, nextCalls, pushData, text,
                   existingFileSha>>

\* A faulty variant: an error other than 404 is thrown on, as the sha lookup
\* does
AfterFile_Rethrow ==
    /\ Returned("files")
    /\ IF Result.st \notin {"file", "404"}
       THEN Throw("sha") /\ UNCHANGED <<prompt, todo>>
       ELSE LET path == Head(todo)
                content == getFileContent(Result)
                portion == IF variant = "index"
                           THEN Whole("files", path, content[1])
                           ELSE Truncated("files", path, content[1], TruncateAt2)
            IN  ReadAll(pushData[1], Add(prompt, content, portion), Tail(todo), "files")
    /\ UNCHANGED <<deployVars, parked, repoVars, req, nextCalls, pushData, text,
                   existingFileSha>>

\* index.ts, part_002: a changed or scanned file was read
AfterFile ==
    /\ Returned("files")
    /\ LET path == Head(todo)
           content == getFileContent(Result)
           portion == IF variant = "index"
                      THEN Whole("files", path, content[1])
                      ELSE Truncated("files", path, content[1], TruncateAt2)
       IN  ReadAll(pushData[1], Add(prompt, content, portion), Tail(todo), "files")
    /\ UNCHANGED <<deployVars, parked, repoVars, req, nextCalls, pushData, text,
                   existingFileSha>>

\* part_003: a key configuration file was read
AfterKeyFile ==
    /\ Returned("keyFiles")
    /\ LET path == Head(todo)
           content == getFileContent(Result)
           portions == Add(prompt, content, Whole("keyFiles", path, content[1]))
       IN  IF Tail(todo) # <<>>
           THEN ReadAll(pushData[1], portions, Tail(todo), "keyFiles")
           ELSE ReadAll(pushData[1], portions,
                        sourceFiles(structureFiles(calls[1].res.tree)), "sourceFiles")
    /\ UNCHANGED <<deployVars, parked, repoVars, req, nextCalls, pushData, text,
                   existingFileSha>>

\* part_003: a source file was read
AfterSourceFile ==
    /\ Returned("sourceFiles")
    /\ LET path == Head(todo)
           content == getFileContent(Result)
           portion == Truncated("sourceFiles", path, content[1], TruncateAt3)
       IN  ReadAll(pushData[1], Add(prompt, content, portion), Tail(todo), "sourceFiles")
    /\ UNCHANGED <<deployVars, parked, repoVars, req, nextCalls, pushData, text,
                   existingFileSha>>

\* A faulty variant: only a missing or empty text is refused
TooShort_EmptyOnly(t) ==
    CASE variant = "index" -> <<>>
      [] variant = "part_002" ->
            IF t = <<>> \/ t[1] = 0
            THEN <<Failure("Generated README too short")>> ELSE <<>>
      [] variant = "part_003" ->
            IF t = <<>> \/ t[1] = 0
            THEN <<Failure("Generated README too short or empty")>> ELSE <<>>

\* The text guard after the model call: <<>> or <<the 500 response>>
TooShort(t) ==
    CASE variant = "index" -> <<>>
      [] variant = "part_002" ->
            IF t = <<>> \/ t[1] < MinReadme2
            THEN <<Failure("Generated README too short")>> ELSE <<>>
      [] variant = "part_003" ->
            IF t = <<>> \/ t[1] < MinReadme3
            THEN <<Failure("Generated README too short or empty")>> ELSE <<>>

\* A faulty variant: a text that is too short is asked for again
AfterGenerate_Again ==
    /\ Returned("generate")
    /\ IF Result.st = "threw"
       THEN Throw("generate") /\ UNCHANGED text
       ELSE /\ text' = Result.text
            /\ IF TooShort(Result.text) # <<>>
               THEN AwaitGenerate(prompt)
               ELSE Await("sha", GetContent(pushData[1], ReadmeMd, "sha"))
    /\ UNCHANGED <<deployVars, parked, repoVars, req, nextCalls, pushData, prompt, todo,
                   existingFileSha>>

\* agent.generate returned or threw
AfterGenerate ==
    /\ Returned("generate")
    /\ IF Result.st = "threw"
       THEN Throw("generate") /\ UNCHANGED text
       ELSE /\ text' = Result.text
            /\ IF TooShort(Result.text) # <<>>
               THEN Reply(TooShort(Result.text)[1])
               ELSE Await("sha", GetContent(pushData[1], ReadmeMd, "sha"))
    /\ UNCHANGED <<deployVars, parked, repoVars, req, nextCalls, pushData, prompt, todo,
                   existingFileSha>>

\* A faulty variant: every error of the sha lookup counts as "no README yet"
AfterSha_ErrorCreates ==
    /\ Returned("sha")
    /\ LET sha == IF Result.st = "file" THEN <<Result.sha>> ELSE <<>>
       IN  /\ existingFileSha' = sha
           /\ IF text = <<>>
              THEN Throw("buffer")
              ELSE Await("commit",
                         CreateOrUpdateFileContents(pushData[1], text[1], sha))
    /\ UNCHANGED <<deployVars, parked, repoVars, req, nextCalls, pushData, prompt, todo, text>>

\* The sha lookup returned or threw; the commit is issued
AfterSha ==
    /\ Returned("sha")
    /\ IF Result.st \notin {"file", "404"}
       THEN Throw("sha") /\ UNCHANGED existingFileSha
       ELSE LET sha == IF Result.st = "file" THEN <<Result.sha>> ELSE <<>>
            IN  /\ existingFileSha' = sha
                /\ IF text = <<>>
                   THEN Throw("buffer")
                   ELSE Await("commit",
                              CreateOrUpdateFileContents(pushData[1], text[1], sha))
    /\ UNCHANGED <<deployVars, parked, repoVars, req, nextCalls, pushData, prompt, todo, text>>

SuccessMessage ==
    CASE variant = "index" -> "README updated"
      [] variant = "part_002" -> "README updated successfully"
      [] variant = "part_003" -> "README.md updated based on project analysis"

\* A faulty variant: a commit that failed is issued again
AfterCommit_Retry ==
    /\ Returned("commit")
    /\ IF Result.st = "ok"
       THEN Reply(Success(SuccessMessage))
       ELSE Await("commit", [LastCall EXCEPT !.res = Pending])
    /\ UNCHANGED <<deployVars, parked, repoVars, req, nextCalls, localVars>>

\* createOrUpdateFileContents returned or threw
AfterCommit ==
    /\ Returned("commit")
    /\ IF Result.st = "ok" THEN Reply(Success(SuccessMessage)) ELSE Throw("commit")
    /\ UNCHANGED <<deployVars, parked, repoVars, req, nextCalls, localVars>>

Handler ==
    \/ ParsePayload
    \/ AfterPackageJson
    \/ AfterReadme
    \/ AfterTree
    \/ AfterFile
    \/ AfterKeyFile
    \/ AfterSourceFile
    \/ AfterGenerate
    \/ AfterSha
    \/ AfterCommit

----------------------------------------------------------------------------
(* Specifications *)

Variants == {"index", "part_002", "part_003"}

Deployed ==
    /\ variant \in Variants
    /\ tokenSet \in BOOLEAN
    /\ world \in Worlds
    /\ readme \in Readmes
    /\ commits = 0
    /\ req = <<>>
    /\ pc = "idle"
    /\ pushData = <<>>
    /\ calls = <<>>
    /\ prompt = <<>>
    /\ todo = <<>>
    /\ text = <<>>
    /\ existingFileSha = <<>>
    /\ response = <<>>
    /\ nextCalls = 0
    /\ escaped = FALSE
    /\ parked = <<>>

Init == Deployed /\ queue = <<>>

Next == Receive \/ NextReturns \/ Handler \/ Respond

\* The server, receiving any requests
Spec == Init /\ [][Next]_vars

NextLive == Accept \/ NextReturns \/ Handler \/ Respond

\* The server, where every call that is awaited returns or throws in the end
\* (Respond) and the event loop then runs the code after the await (Handler)
SpecLive == Init /\ [][NextLive]_vars /\ WF_vars(Handler) /\ WF_vars(Respond)

\* The pushes of a person to the default branch
HumanPushes ==
    { Request("POST", WebhookPath, Push(RefMain, c, <<"m","a","i","n">>)) :
        c \in {HumanCommit, ManyCommit, NoRelevantCommit} }

InitLoop == Deployed /\ queue \in {<<r>> : r \in HumanPushes}

NextLoop == Deliver \/ Handler \/ Respond

\* The server subscribed to the push events of its own repository: one push
\* of a person, and then only the push events of the commits it writes
SpecLoop == InitLoop /\ [][NextLoop]_vars /\ WF_vars(NextLoop)

----------------------------------------------------------------------------
(* Two requests in one process *)

\* The state of the invocation of the middleware that is running
Frame ==
    [req |-> req, pc |-> pc, pushData |-> pushData, calls |-> calls,
     prompt |-> prompt, todo |-> todo, text |-> text,
     existingFileSha |-> existingFileSha, response |-> response,
     nextCalls |-> nextCalls, escaped |-> escaped]

\* Pushes of a person to the default branch of one repository
RacePushes ==
    { Request("POST", WebhookPath, Push(RefMain, c, <<"m","a","i","n">>)) :
        c \in {SmallCommit, NoRelevantCommit} }

\* A request arrives; the invocation that was running, if there is one, stays
\* suspended at its await, or done
Arrive ==
    /\ parked = <<>>
    /\ \E r \in RacePushes : Middleware(r)
    /\ parked' = IF req = <<>> THEN <<>> ELSE <<Frame>>
    /\ UNCHANGED repoVars

\* The event loop goes on with the other invocation
Resume ==
    /\ parked # <<>>
    /\ parked' = <<Frame>>
    /\ req' = parked[1].req
    /\ pc' = parked[1].pc
    /\ pushData' = parked[1].pushData
    /\ calls' = parked[1].calls
    /\ prompt' = parked[1].prompt
    /\ todo' = parked[1].todo
    /\ text' = parked[1].text
    /\ existingFileSha' = parked[1].existingFileSha
    /\ response' = parked[1].response
    /\ nextCalls' = parked[1].nextCalls
    /\ escaped' = parked[1].escaped
    /\ UNCHANGED <<deployVars, repoVars>>

InitRace ==
    /\ variant \in Variants
    /\ tokenSet \in BOOLEAN
    /\ world = TinyWorld
    /\ readme \in Readmes
    /\ queue = <<>>
    /\ commits = 0
    /\ req = <<>>
    /\ pc = "idle"
    /\ pushData = <<>>
    /\ calls = <<>>
    /\ prompt = <<>>
    /\ todo = <<>>
    /\ text = <<>>
    /\ existingFileSha = <<>>
    /\ response = <<>>
    /\ nextCalls = 0
    /\ escaped = FALSE
    /\ parked = <<>>

NextRace == Arrive \/ Resume \/ Handler \/ Respond

\* The server handling two pushes to one repository, the awaited steps of
\* the two requests interleaved in any way
SpecRace == InitRace /\ [][NextRace]_vars

----------------------------------------------------------------------------
(* What the claims speak of *)

\* The request being handled is a POST to /api/github-webhook whose body is a
\* payload that the schema accepts
ValidPush ==
    /\ req # <<>>
    /\ req[1].method = "POST"
    /\ req[1].path = "/api/github-webhook"
    /\ req[1].body.kind = "push"

Payload == req[1].body

\* The calls of this request of one kind, as positions in `calls`
CallsOf(kind) == {i \in 1..Len(calls) : calls[i].kind = kind}

\* The reads of this request made at one place of the code
ReadsAt(use) == {i \in 1..Len(calls) : calls[i].kind = "getContent" /\ calls[i].use = use}

ModelCalled == CallsOf("generate") # {}
CommitCalled == CallsOf("createOrUpdateFileContents") # {}

Answered == pc = "done" /\ response # <<>>

\* The ref is 'refs/heads/' + repository.default_branch
OnDefaultBranch(p) == p.ref = <<"r","e","f","s","/","h","e","a","d","s","/">> \o p.repository.default_branch

----------------------------------------------------------------------------
(* C1 *)

\* C1: a schema-valid push with head_commit = null makes no outbound call, and
\* when the handler is done its answer is {status: 'skipped', reason: 'No
\* head_commit found'}, in every build.
C1_NullHeadCommitSkipped ==
    (ValidPush /\ Payload.head_commit = <<>>) =>
        /\ calls = <<>>
        /\ pc \in {"json", "done"}
        /\ pc = "done" =>
              response = <<[code |-> 200, status |-> "skipped", success |-> "none",
                            msg |-> "No head_commit found"]>>

\* C1: a push with head_commit = null, on another branch than the default
\* one, was answered.
C1_Witness ==
    /\ ValidPush
    /\ Payload.head_commit = <<>>
    /\ ~OnDefaultBranch(Payload)
    /\ Answered
    /\ response[1].msg = "No head_commit found"

----------------------------------------------------------------------------
(* C2 *)

\* C2 as stated: every push off the default branch is answered
\* {status: 'skipped', reason: 'Not default branch'}.
C2_AsStated ==
    (ValidPush /\ ~OnDefaultBranch(Payload) /\ pc = "done") =>
        /\ response # <<>>
        /\ response[1].status = "skipped"
        /\ response[1].msg = "Not default branch"

\* C2 amended: a schema-valid push off the default branch is answered with
\* status 'skipped' and makes no outbound call (no model call, no commit); its
\* reason is 'Not default branch' unless an earlier check answers first: 'No
\* head_commit found' for head_commit = null, and the bot-commit reason of
\* index.ts and part_003 for a message with '[AI]' (or, in part_003, 'AI
\* README Bot').  A commit is issued only for a ref that is the default
\* branch's.
C2_OffDefaultBranchSkipped ==
    /\ (ValidPush /\ ~OnDefaultBranch(Payload)) =>
          /\ calls = <<>>
          /\ pc \in {"json", "done"}
          /\ pc = "done" =>
                /\ response # <<>>
                /\ response[1].status = "skipped"
                /\ response[1].code = 200
                /\ response[1].msg =
                      IF Payload.head_commit = <<>> THEN "No head_commit found"
                      ELSE IF /\ variant = "index"
                              /\ Includes(Payload.head_commit[1].message, <<"[","A","I","]">>)
                           THEN "AI commit"
                      ELSE IF /\ variant = "part_003"
                              /\ \/ Includes(Payload.head_commit[1].message, <<"[","A","I","]">>)
                                 \/ Includes(Payload.head_commit[1].message, <<"A","I"," ","R","E","A","D","M","E"," ","B","o","t">>)
                           THEN "AI bot commit detected"
                      ELSE "Not default branch"
    /\ (ModelCalled \/ CommitCalled) => (ValidPush /\ OnDefaultBranch(Payload))

\* C2: a human push to another branch was answered 'Not default branch'.
C2_Witness ==
    /\ ValidPush
    /\ ~OnDefaultBranch(Payload)
    /\ Payload.head_commit # <<>>
    /\ Answered
    /\ response[1].msg = "Not default branch"

----------------------------------------------------------------------------
(* C3 *)

\* C3: in every build, a push whose head_commit.message contains '[AI]' is
\* answered 'skipped', and neither the model nor the commit is called.
C3_AiCommitSkipped ==
    (/\ ValidPush
     /\ Payload.head_commit # <<>>
     /\ Includes(Payload.head_commit[1].message, <<"[","A","I","]">>)) =>
        /\ ~ModelCalled
        /\ ~CommitCalled
        /\ pc = "done" => (response # <<>> /\ response[1].status = "skipped")

----------------------------------------------------------------------------
(* C4 *)

\* C4: when every README commit comes back to the webhook as a push event,
\* one push of a person leads to at most one README commit, in every build.
C4_AtMostOneCommit == commits <= 1

----------------------------------------------------------------------------
(* C5 *)

\* An exception was raised while this webhook request was handled: the body
\* is not JSON, the payload fails the schema, the model call threw, the sha
\* lookup failed with another status than 404, or the commit call threw.
Raised ==
    /\ req # <<>>
    /\ req[1].method = "POST"
    /\ req[1].path = "/api/github-webhook"
    /\ \/ req[1].body.kind \in {"notjson", "badschema"}
       \/ /\ calls # <<>>
          /\ \/ LastCall.kind = "generate" /\ Result.st = "threw"
             \/ /\ LastCall.kind = "getContent"
                /\ LastCall.use = "sha"
                /\ Result.st \notin {"pending", "file", "404"}
             \/ /\ LastCall.kind = "createOrUpdateFileContents"
                /\ Result.st \notin {"pending", "ok"}

\* C5: no exception leaves the middleware; a webhook request never reaches
\* next(); and a request during which an exception was raised ends with an
\* HTTP 500 answer whose success is false.
C5_ExceptionsAnswered500 ==
    /\ ~escaped
    /\ (req # <<>> /\ req[1].method = "POST" /\ req[1].path = "/api/github-webhook")
          => nextCalls = 0
    /\ (Raised /\ pc = "done") =>
          /\ response # <<>>
          /\ response[1].code = 500
          /\ response[1].success = "false"

\* C5: the body was not JSON, and the request was answered.
C5_Witness ==
    /\ Raised
    /\ req[1].body.kind = "notjson"
    /\ Answered
    /\ response[1].code = 500

----------------------------------------------------------------------------
(* C6 *)

\* The calls that read for the prompt: file reads and the tree listing
PromptReads ==
    {i \in 1..Len(calls) :
        \/ calls[i].kind = "getTree"
        \/ calls[i].kind = "getContent" /\ calls[i].use # "sha"}

\* C6: the model is called at most once and the commit at most once per
\* request; every call follows validation and the skip checks; every read for
\* the prompt precedes the model call; and a commit follows exactly one model
\* call, which follows every read for the prompt.
C6_LinearPipeline ==
    /\ Cardinality(CallsOf("generate")) <= 1
    /\ Cardinality(CallsOf("createOrUpdateFileContents")) <= 1
    /\ calls # <<>> =>
          /\ pushData # <<>>
          /\ pushData[1] = req[1].body
          /\ pushData[1].head_commit # <<>>
          /\ OnDefaultBranch(pushData[1])
    /\ \A g \in CallsOf("generate") : \A i \in PromptReads : i < g
    /\ \A c \in CallsOf("createOrUpdateFileContents") :
          /\ Cardinality(CallsOf("generate")) = 1
          /\ \A g \in CallsOf("generate") : g < c /\ calls[g].res.st = "ok"
          /\ \A i \in 1..Len(calls) : i <= c

\* C6: a request that read files, called the model and committed was
\* answered.
C6_Witness ==
    /\ CommitCalled
    /\ Cardinality(PromptReads) >= 3
    /\ Answered
    /\ response[1].success = "true"

----------------------------------------------------------------------------
(* C7 *)

\* C7: a model call or a commit call that failed is the last outbound call of
\* its request, and the request ends with HTTP 500.
C7_NoRetry ==
    \A i \in 1..Len(calls) :
        (/\ calls[i].kind \in {"generate", "createOrUpdateFileContents"}
         /\ calls[i].res.st \notin {"pending", "ok"}) =>
            /\ i = Len(calls)
            /\ pc \in {"generate", "commit", "done"}
            /\ pc = "done" => (response # <<>> /\ response[1].code = 500)

\* C7: the commit call failed and the request was answered.
C7_Witness ==
    /\ CommitCalled
    /\ Result.st = "500"
    /\ LastCall.kind = "createOrUpdateFileContents"
    /\ Answered
    /\ response[1].code = 500

----------------------------------------------------------------------------
(* C8 *)

\* C8: index.ts reads at most 10 changed files, part_002 at most 10 changed
\* files or at most 8 files of the tree, part_003 at most one file for each
\* of the 16 key-file patterns and at most 10 source files; package.json and
\* README.md are read for the prompt at most once each; whatever the payload
\* and the tree.
C8_BoundedReads ==
    /\ Cardinality(ReadsAt("packageJson")) <= 1
    /\ Cardinality(ReadsAt("readme")) <= 1
    /\ Cardinality(CallsOf("getTree")) <= 1
    /\ Cardinality(ReadsAt("files")) <= 10
    /\ (variant = "part_002" /\ CallsOf("getTree") # {}) =>
          Cardinality(ReadsAt("files")) <= 8
    /\ variant = "index" => CallsOf("getTree") = {}
    /\ variant = "part_003" =>
          /\ ReadsAt("packageJson") = {} /\ ReadsAt("readme") = {} /\ ReadsAt("files") = {}
          /\ Cardinality(ReadsAt("keyFiles")) <= 16
          /\ \A i, j \in ReadsAt("keyFiles") :
                (\E k \in 1..Len(keyFilePatterns) :
                    /\ EndsWith(calls[i].path, keyFilePatterns[k])
                    /\ EndsWith(calls[j].path, keyFilePatterns[k])) => i = j
          /\ Cardinality(ReadsAt("sourceFiles")) <= 10
    /\ variant # "part_003" => (ReadsAt("keyFiles") = {} /\ ReadsAt("sourceFiles") = {})

\* More relevant files were offered than the code reads
MoreChangedThanRead ==
    /\ pushData # <<>>
    /\ pushData[1].head_commit # <<>>
    /\ Len(SelectSeq(pushData[1].head_commit[1].added
                     \o pushData[1].head_commit[1].modified
                     \o pushData[1].head_commit[1].removed,
                     LAMBDA f : EndsWith(f, <<".","t","s">>))) > 10

\* C8: index.ts was offered more than 10 relevant changed files, read 10 and
\* answered.
C8_Witness ==
    /\ variant = "index"
    /\ MoreChangedThanRead
    /\ Cardinality(ReadsAt("files")) = 10
    /\ Answered

----------------------------------------------------------------------------
(* C9 *)

\* C9 as stated: every file portion of the prompt is cut at a fixed maximum
\* (2000 characters in part_002, 1500 in part_003) and a longer file carries
\* the truncation marker, in every build.
C9_AsStated ==
    \A i \in 1..Len(prompt) :
        LET max == IF variant = "part_003" THEN 1500 ELSE 2000
        IN  /\ prompt[i].taken <= max
            /\ prompt[i].len > max => prompt[i].marker

\* C9 amended: only the changed or scanned files of part_002 (cut at 2000
\* characters) and the source files of part_003 (cut at 1500 characters) are
\* truncated, a cut file carrying the marker; package.json and README.md in
\* part_002, the key configuration files of part_003 and every file of
\* index.ts enter the prompt whole, whatever their length.
C9_TruncatedWhereTheCodeCuts ==
    \A i \in 1..Len(prompt) :
        LET q == prompt[i]
            cut == IF variant = "part_002" /\ q.from = "files" THEN 2000
                   ELSE IF variant = "part_003" /\ q.from = "sourceFiles" THEN 1500
                   ELSE 0
        IN  /\ q.len > 0
            /\ IF cut > 0 /\ q.len > cut
               THEN q.taken = cut /\ q.marker
               ELSE q.taken = q.len /\ ~q.marker

\* C9: part_002 called the model with a prompt holding a cut file and a whole
\* file longer than 2000 characters.
C9_Witness ==
    /\ variant = "part_002"
    /\ ModelCalled
    /\ \E i \in 1..Len(prompt) : prompt[i].marker /\ prompt[i].taken = 2000
    /\ \E i \in 1..Len(prompt) : ~prompt[i].marker /\ prompt[i].taken > 2000

----------------------------------------------------------------------------
(* C10 *)

\* C10: a request is handled as a webhook exactly when it is a POST to
\* /api/github-webhook.  Any other request gets one call of next(), no
\* outbound call and no answer of the middleware; a webhook request never
\* gets a call of next().
C10_OneRoute ==
    req # <<>> =>
        IF req[1].method = "POST" /\ req[1].path = "/api/github-webhook"
        THEN /\ nextCalls = 0
             /\ pc # "next"
             /\ pc = "done" => (response # <<>> \/ escaped)
        ELSE /\ nextCalls = 1
             /\ pc \in {"next", "done"}
             /\ calls = <<>>
             /\ pushData = <<>>
             /\ response = <<>>

\* C10: a GET of /api/github-webhook went to next().
C10_Witness ==
    /\ req # <<>>
    /\ req[1].method = "GET"
    /\ req[1].path = "/api/github-webhook"
    /\ pc = "done"
    /\ nextCalls = 1

----------------------------------------------------------------------------
(* C11 *)

\* C11: within one request at most one outbound call is in flight: a call
\* that has no result yet is the last one issued, whatever its kind, and the
\* handler has not answered while it is in flight.
C11_OneCallInFlight ==
    /\ \A i \in 1..Len(calls) : calls[i].res.st = "pending" => i = Len(calls)
    /\ Awaiting => pc \notin {"idle", "next", "done"}

\* C11: inside a loop over files, the second read is in flight and the first
\* one has its result.
C11_Witness ==
    /\ Len(calls) >= 4
    /\ Awaiting
    /\ LastCall.kind = "getContent"
    /\ LastCall.use \in {"files", "keyFiles", "sourceFiles"}
    /\ calls[Len(calls) - 1].use = LastCall.use
    /\ calls[Len(calls) - 1].res.st # "pending"

----------------------------------------------------------------------------
(* C12 *)

\* A call as it was issued, without its result
Issued(call) == [call EXCEPT !.res = Pending]

\* Two call lists got the same results for their first k calls
SameResults(a, b, k) == \A j \in 1..k : a[j].res = b[j].res

\* C12: two requests of one process with the same payload, whatever was
\* handled before them and however their steps are interleaved: as long as
\* their outbound calls got the same results, the next call each one issues
\* is the same; and when all results are the same, neither issues a call the
\* other does not, and their answers are the same.
C12_SameInputsSameBehaviour ==
    (parked # <<>> /\ parked[1].req = req) =>
        LET a == calls
            b == parked[1].calls
            n == Min(Len(a), Len(b))
        IN  /\ \A k \in 1..n :
                  SameResults(a, b, k - 1) => Issued(a[k]) = Issued(b[k])
            /\ SameResults(a, b, n) =>
                  /\ pc = "done" => Len(b) <= Len(a)
                  /\ parked[1].pc = "done" => Len(a) <= Len(b)
                  /\ (pc = "done" /\ parked[1].pc = "done") =>
                        /\ response = parked[1].response
                        /\ escaped = parked[1].escaped
                        /\ nextCalls = parked[1].nextCalls

\* C12: two requests with the same payload got the same results from GitHub
\* and the model, up to a commit that GitHub refused, and are both answered.
C12_Witness ==
    /\ parked # <<>>
    /\ parked[1].req = req
    /\ pc = "done"
    /\ parked[1].pc = "done"
    /\ calls = parked[1].calls
    /\ CommitCalled
    /\ prompt # <<>>
    /\ response # <<>>

----------------------------------------------------------------------------
(* C13 *)

\* C13: the only call of a request that writes is createOrUpdateFileContents,
\* and each one has path 'README.md', the owner, repository and default
\* branch of the payload, and a commit message that contains '[AI]'.
C13_OnlyReadmeWritten ==
    \A i \in 1..Len(calls) :
        /\ calls[i].kind \in {"getContent", "getTree", "generate",
                              "createOrUpdateFileContents"}
        /\ calls[i].kind = "createOrUpdateFileContents" =>
              /\ ValidPush
              /\ calls[i].path = <<"R","E","A","D","M","E",".","m","d">>
              /\ calls[i].owner = Payload.repository.owner.login
              /\ calls[i].repo = Payload.repository.name
              /\ calls[i].branch = Payload.repository.default_branch
              /\ Includes(calls[i].message, <<"[","A","I","]">>)

\* C13: README.md was committed to the default branch 'dev' of another
\* repository than the usual one.
C13_Witness ==
    /\ ValidPush
    /\ Payload.repository.name = "fork"
    /\ Payload.repository.default_branch = <<"d","e","v">>
    /\ CommitCalled
    /\ LastCall.kind = "createOrUpdateFileContents"
    /\ LastCall.branch = <<"d","e","v">>
    /\ LastCall.res.st = "ok"

----------------------------------------------------------------------------
(* C14 *)

\* The sha of README.md on GitHub: <<>> when there is none
ReadmeSha == IF readme = <<>> THEN <<>> ELSE <<readme[1].sha>>

\* C14: when a request issues its commit, the sha it passes is the sha
\* README.md has on GitHub at that moment, also with another request of the
\* process in progress.
C14_ShaFreshAtCommit ==
    [][ (pc = "sha" /\ pc' = "commit" /\ parked' = parked) =>
            calls'[Len(calls')].sha = ReadmeSha' ]_vars

----------------------------------------------------------------------------
(* C15 *)

\* C15: a commit directly follows a sha lookup of README.md that found the
\* file, and then carries exactly its sha, or that got 404, and then carries
\* no sha.  A lookup that fails otherwise is the last call of the request:
\* the model was called, no commit is issued, and the answer is HTTP 500.
C15_ShaHandling ==
    /\ \A i \in CallsOf("createOrUpdateFileContents") :
          /\ i > 1
          /\ calls[i - 1].kind = "getContent"
          /\ calls[i - 1].use = "sha"
          /\ calls[i - 1].path = <<"R","E","A","D","M","E",".","m","d">>
          /\ calls[i - 1].res.st \in {"file", "404"}
          /\ calls[i - 1].res.st = "file" => calls[i].sha = <<calls[i - 1].res.sha>>
          /\ calls[i - 1].res.st = "404" => calls[i].sha = <<>>
    /\ \A i \in ReadsAt("sha") :
          calls[i].res.st \notin {"file", "404", "pending"} =>
              /\ i = Len(calls)
              /\ ModelCalled
              /\ ~CommitCalled
              /\ pc \in {"sha", "done"}
              /\ pc = "done" =>
                    /\ response # <<>>
                    /\ response[1].code = 500
                    /\ response[1].success = "false"

\* C15: the sha lookup failed with another status than 404 and the request
\* was answered.
C15_Witness ==
    /\ Answered
    /\ calls # <<>>
    /\ LastCall.kind = "getContent"
    /\ LastCall.use = "sha"
    /\ LastCall.res.st = "500"
    /\ ModelCalled

----------------------------------------------------------------------------
(* C16 *)

\* C16: in part_002 (threshold 50) and part_003 (threshold 100), a model text
\* that is missing, empty or shorter than the threshold ends the request with
\* HTTP 500 and success = false, with neither sha lookup nor commit after the
\* model call; a commit carries the base64 encoding of a model text of at
\* least the threshold length.
C16_TextGuard ==
    variant \in {"part_002", "part_003"} =>
        LET threshold == IF variant = "part_002" THEN 50 ELSE 100
            refused(t) == t = <<>> \/ t[1] < threshold
        IN  /\ \A g \in CallsOf("generate") :
                  (calls[g].res.st = "ok" /\ refused(calls[g].res.text)) =>
                      /\ g = Len(calls)
                      /\ pc \in {"generate", "done"}
                      /\ pc = "done" =>
                            /\ response # <<>>
                            /\ response[1].code = 500
                            /\ response[1].success = "false"
            /\ \A c \in CallsOf("createOrUpdateFileContents") :
                  /\ c > 2
                  /\ calls[c - 2].kind = "generate"
                  /\ calls[c - 2].res.st = "ok"
                  /\ ~refused(calls[c - 2].res.text)
                  /\ calls[c].content = [base64 |-> calls[c - 2].res.text[1]]

\* C16: part_003 refused a text of 99 characters.
C16_Witness ==
    /\ variant = "part_003"
    /\ Answered
    /\ calls # <<>>
    /\ LastCall.kind = "generate"
    /\ LastCall.res.st = "ok"
    /\ LastCall.res.text = <<99>>
    /\ response[1].code = 500

----------------------------------------------------------------------------
(* C17 *)

\* C17: index.ts commits no empty README: every createOrUpdateFileContents
\* carries a model text that is not empty, and a request whose model call
\* returned no text (undefined or '') ends with HTTP 500 and without commit.
C17_NoEmptyCommit ==
    variant = "index" =>
        /\ \A c \in CallsOf("createOrUpdateFileContents") :
              /\ text # <<>>
              /\ text[1] > 0
              /\ calls[c].content # [base64 |-> 0]
        /\ \A g \in CallsOf("generate") :
              (calls[g].res.st = "ok" /\ calls[g].res.text \in {<<>>, <<0>>}) =>
                  /\ ~CommitCalled
                  /\ pc = "done" => (response # <<>> /\ response[1].code = 500)

----------------------------------------------------------------------------
(* C18 *)

\* The message of the head commit carries the mark the build looks for:
\* '[AI]' in index.ts, '[AI]' or 'AI README Bot' in part_003
BotAuthored(p) ==
    /\ p.head_commit # <<>>
    /\ \/ /\ variant = "index"
          /\ Includes(p.head_commit[1].message, <<"[","A","I","]">>)
       \/ /\ variant = "part_003"
          /\ \/ Includes(p.head_commit[1].message, <<"[","A","I","]">>)
             \/ Includes(p.head_commit[1].message, <<"A","I"," ","R","E","A","D","M","E"," ","B","o","t">>)

\* C18: the checks answer in the order head_commit, bot commit, branch,
\* token.  A push without head_commit is answered 'No head_commit found'; a
\* bot-authored push is answered 'skipped' with the bot reason of its build
\* ('AI commit' in index.ts, 'AI bot commit detected' in part_003) also when
\* it is off the default branch; any other push off the default branch is
\* answered 'Not default branch'; all of these also when GITHUB_TOKEN is
\* unset, which answers 500 in part_003 only for a push that passed them.
C18_CheckOrder ==
    (ValidPush /\ pc = "done") =>
        /\ Payload.head_commit = <<>> =>
              response = <<[code |-> 200, status |-> "skipped", success |-> "none",
                            msg |-> "No head_commit found"]>>
        /\ BotAuthored(Payload) =>
              response = <<[code |-> 200, status |-> "skipped", success |-> "none",
                            msg |-> IF variant = "index" THEN "AI commit"
                                    ELSE "AI bot commit detected"]>>
        /\ (/\ Payload.head_commit # <<>>
            /\ ~BotAuthored(Payload)
            /\ ~OnDefaultBranch(Payload)) =>
              response = <<[code |-> 200, status |-> "skipped", success |-> "none",
                            msg |-> "Not default branch"]>>
        /\ (response # <<>> /\ response[1].msg = "GitHub token not configured") =>
              /\ variant = "part_003"
              /\ Payload.head_commit # <<>>
              /\ ~BotAuthored(Payload)
              /\ OnDefaultBranch(Payload)

\* C18: part_003 without GITHUB_TOKEN answered a bot-authored push off the
\* default branch.
C18_Witness ==
    /\ variant = "part_003"
    /\ ~tokenSet
    /\ ValidPush
    /\ BotAuthored(Payload)
    /\ ~OnDefaultBranch(Payload)
    /\ Answered
    /\ response[1].status = "skipped"
    /\ response[1].msg = "AI bot commit detected"

----------------------------------------------------------------------------
(* C19 *)

\* C19: in part_003 with GITHUB_TOKEN unset, a push that no skip check
\* answers makes no outbound call and is answered HTTP 500 with error 'GitHub
\* token not configured'.
C19_TokenMissing ==
    (/\ variant = "part_003"
     /\ ~tokenSet
     /\ ValidPush
     /\ Payload.head_commit # <<>>
     /\ ~Includes(Payload.head_commit[1].message, <<"[","A","I","]">>)
     /\ ~Includes(Payload.head_commit[1].message, <<"A","I"," ","R","E","A","D","M","E"," ","B","o","t">>)
     /\ OnDefaultBranch(Payload)) =>
        /\ calls = <<>>
        /\ pc \in {"json", "done"}
        /\ pc = "done" =>
              response = <<[code |-> 500, status |-> "none", success |-> "false",
                            msg |-> "GitHub token not configured"]>>

\* C19: part_003 without GITHUB_TOKEN answered a human push to the default
\* branch.
C19_Witness ==
    /\ variant = "part_003"
    /\ ~tokenSet
    /\ ValidPush
    /\ Payload.head_commit # <<>>
    /\ OnDefaultBranch(Payload)
    /\ Answered
    /\ response[1].code = 500
    /\ response[1].msg = "GitHub token not configured"
    /\ calls = <<>>

----------------------------------------------------------------------------
(* C20 *)

\* Call i read a file for the prompt and got no text: an error of any status,
\* or an answer without 'content'
FailedRead(i) ==
    /\ calls[i].kind = "getContent"
    /\ calls[i].use # "sha"
    /\ calls[i].res.st \notin {"file", "pending"}

\* C20: a read for the prompt that fails, with any error or with an answer
\* that has no content, does not fail the request: no exception leaves the
\* handler, the file is left out of the prompt, the next call is the next
\* read or the model call, and a request that is done has called the model
\* after it.  index.ts reads every selected changed path, the removed ones
\* too, before it calls the model.
C20_FailedReadsTolerated ==
    /\ \A i \in 1..Len(calls) :
          FailedRead(i) =>
              /\ ~escaped
              /\ \A k \in 1..Len(prompt) :
                    ~(prompt[k].from = calls[i].use /\ prompt[k].path = calls[i].path)
              /\ i < Len(calls) =>
                    calls[i + 1].kind \in {"getContent", "getTree", "generate"}
              /\ i = Len(calls) => pc = calls[i].use
              /\ pc = "done" => \E g \in CallsOf("generate") : g > i
    /\ (variant = "index" /\ ModelCalled) =>
          LET reads == SelectSeq(calls, LAMBDA c : c.kind = "getContent" /\ c.use = "files")
              changed == Payload.head_commit[1].added \o Payload.head_commit[1].modified
                            \o Payload.head_commit[1].removed
          IN  [k \in 1..Len(reads) |-> reads[k].path]
                  = priorityFiles(changed)

\* C20: index.ts read a removed path (404), a path GitHub fails on (500) and
\* a directory (no content), and then committed the README.
C20_Witness ==
    /\ variant = "index"
    /\ Answered
    /\ response[1].code = 200
    /\ response[1].success = "true"
    /\ \E i \in 1..Len(calls) :
          FailedRead(i) /\ calls[i].res.st = "404"
              /\ calls[i].path \in Range(Payload.head_commit[1].removed)
    /\ \E i \in 1..Len(calls) : FailedRead(i) /\ calls[i].res.st = "500"
    /\ \E i \in 1..Len(calls) : FailedRead(i) /\ calls[i].res.st = "dir"

----------------------------------------------------------------------------
(* C21 *)

\* The request being handled is a POST to /api/github-webhook
WebhookRequest ==
    /\ req # <<>>
    /\ req[1].method = "POST"
    /\ req[1].path = "/api/github-webhook"

\* The most outbound calls a request makes: package.json, README.md, ten
\* files, the model, the sha lookup and the commit in index.ts and part_002;
\* the tree, sixteen key files, ten source files, the model, the sha lookup
\* and the commit in part_003
MostCalls == IF variant = "part_003" THEN 30 ELSE 15

\* C21: a POST to /api/github-webhook makes a bounded number of outbound
\* calls, has no answer while it is in progress, and, when every awaited call
\* returns or throws, ends with one answer: 'skipped', success or HTTP 500.
\* It does not call next() and no exception leaves it.
C21_Terminates ==
    /\ [](WebhookRequest =>
            /\ Len(calls) <= MostCalls
            /\ nextCalls = 0
            /\ ~escaped
            /\ pc # "done" => response = <<>>
            /\ pc = "done" =>
                  /\ response # <<>>
                  /\ \/ response[1].code = 200 /\ response[1].status = "skipped"
                     \/ response[1].code = 200 /\ response[1].success = "true"
                     \/ response[1].code = 500 /\ response[1].success = "false")
    /\ (WebhookRequest /\ pc # "done")
          ~> (WebhookRequest /\ pc = "done" /\ response # <<>>)

\* C21: part_003 answered after the tree, five key files, ten source files,
\* the model call, the sha lookup and the commit.
C21_Witness ==
    /\ variant = "part_003"
    /\ WebhookRequest
    /\ Answered
    /\ Len(calls) = 19
    /\ Cardinality(ReadsAt("sourceFiles")) = 10
    /\ LastCall.kind = "createOrUpdateFileContents"

====
